---- MODULE Spec2Model ----
(***************************************************************************)
(* FizzBuzzLang interpreter (src/fbi.py): the VM (stack, sp, stored_sp1,   *)
(* stored_sp2, ip, labels), the decode/dispatch of Interpreter._run_line   *)
(* and the loop of Interpreter.run_file.                                   *)
(*                                                                         *)
(* A source line is modelled by its whitespace-split token sequence        *)
(* (line.split()); the empty sequence is a blank line and a line whose     *)
(* first token is "//" is a comment.  Python lists are 0-based; the        *)
(* sequences here are 1-based, so stack[i] of the source is stack[i + 1].  *)
(***************************************************************************)
EXTENDS Integers, Sequences, FiniteSets, TLC

\* ------------------------------------------------------------------------
\* Bounds of the model
\* ------------------------------------------------------------------------
MaxBody == 1           \* lines of free program text after a preamble
MaxSteps == 12         \* loop iterations explored per run

\* ------------------------------------------------------------------------
\* Vocabulary and lines
\* ------------------------------------------------------------------------
F == "FIZZ"
B == "BUZZ"
FB == "FIZZBUZZ"

Vocabulary == {F, B, FB}

\* {"FIZZ": 1, "BUZZ": 2, "FIZZBUZZ": 3}.get(tok): None is modelled by 0
\* (both are falsy in `if not mode`).
TokenCode(tok) ==
    CASE tok = F -> 1
      [] tok = B -> 2
      [] tok = FB -> 3
      [] OTHER -> 0

\* line.strip().startswith("//") or not line.strip()
IsNonCode(tokens) == IF tokens = << >> THEN TRUE ELSE tokens[1] = "//"

\* Python slice tokens[i:] on a 1-based sequence (i is the 0-based start).
Slice(s, i) == SubSeq(s, i + 1, Len(s))

\* Python slice tokens[:n].
Prefix(s, n) == SubSeq(s, 1, IF n < Len(s) THEN n ELSE Len(s))

\* ------------------------------------------------------------------------
\* Exceptions
\* ------------------------------------------------------------------------
NoError == [kind |-> "none", detail |-> "", token |-> ""]

FBSyntaxError(token, expected) ==
    [kind |-> "FBSyntaxError", detail |-> expected, token |-> token]

FBRuntimeError(detail, name) ==
    [kind |-> "FBRuntimeError", detail |-> detail, token |-> name]

\* An exception of the Python runtime that the interpreter does not raise
\* itself and does not catch.
PyError(kind, detail) == [kind |-> kind, detail |-> detail, token |-> ""]

\* ------------------------------------------------------------------------
\* Python arithmetic and indexing
\* ------------------------------------------------------------------------
\* a % b of Python for b # 0: the result has the sign of the divisor.
PyMod(a, b) == IF b > 0 THEN a % b ELSE -((-a) % (-b))

\* list[i] of Python: a negative index counts from the end.
PyIndex(list, i) == IF i < 0 THEN list[Len(list) + i + 1] ELSE list[i + 1]

PyIndexOk(list, i) == -Len(list) <= i /\ i < Len(list)

RECURSIVE BinValue(_)
\* int(binary_input, 2) for a non-empty string of "0"/"1" digits, given as a
\* sequence of digits 0/1.
BinValue(bits) ==
    IF bits = << >> THEN 0
    ELSE 2 * BinValue(SubSeq(bits, 1, Len(bits) - 1)) + bits[Len(bits)]

\* ------------------------------------------------------------------------
\* VM
\* ------------------------------------------------------------------------
\* VM.__init__
VMInit ==
    [stack |-> <<0>>, sp |-> 0, stored_sp1 |-> 0, stored_sp2 |-> 0,
     ip |-> 0, labels |-> << >>]

\* The result of a VM method: the VM as the method left it, the exception it
\* raised (NoError when it returned) and what it printed.
Ok(v) == [vm |-> v, exc |-> NoError, out |-> << >>]
Raise(v, e) == [vm |-> v, exc |-> e, out |-> << >>]
Printed(v, item) == [vm |-> v, exc |-> NoError, out |-> <<item>>]

\* Variant: every advance appends a cell.
ds_pointer_forward_always_appending(v) ==
    [v EXCEPT !.sp = v.sp + 1, !.stack = Append(v.stack, 0),
              !.ip = v.ip + 1]

ds_pointer_forward(v) ==
    LET sp1 == v.sp + 1
        st == IF sp1 = Len(v.stack) THEN Append(v.stack, 0) ELSE v.stack
    IN [v EXCEPT !.sp = sp1, !.stack = st, !.ip = v.ip + 1]

\* Variant: the pointer retreats two cells at a time.
ds_pointer_backward_two_steps(v) ==
    [v EXCEPT !.sp = IF v.sp - 2 < 0 THEN 0 ELSE v.sp - 2,
              !.ip = v.ip + 1]

\* Variant: the pointer is decremented without the clamp at 0.
ds_pointer_backward_unclamped(v) ==
    [v EXCEPT !.sp = v.sp - 1, !.ip = v.ip + 1]

ds_pointer_backward(v) ==
    [v EXCEPT !.sp = IF v.sp - 1 > 0 THEN v.sp - 1 ELSE 0, !.ip = v.ip + 1]

\* Variant: the copy is taken from the new cell instead of the one below.
ds_duplicate_element_wrong_source(v) ==
    LET w == ds_pointer_forward(v)
    IN [w EXCEPT !.stack[w.sp + 1] = PyIndex(w.stack, w.sp),
                 !.ip = w.ip + 1]

ds_duplicate_element(v) ==
    LET w == ds_pointer_forward(v)
    IN [w EXCEPT !.stack[w.sp + 1] = PyIndex(w.stack, w.sp - 1),
                 !.ip = w.ip + 1]

\* [first, self.stack[self.stored_sp1], self.stack[self.stored_sp2]][id]
Operand(v, first, stored_location_id) ==
    CASE stored_location_id = 0 -> first
      [] stored_location_id = 1 -> PyIndex(v.stack, v.stored_sp1)
      [] stored_location_id = 2 -> PyIndex(v.stack, v.stored_sp2)

ds_add(v, stored_location_id) ==
    LET addend == Operand(v, 1, stored_location_id)
    IN [v EXCEPT !.stack[v.sp + 1] = @ + addend, !.ip = v.ip + 1]

\* Variant: the subtrahend is always the fixed value 1.
ds_subtract_fixed_one(v, stored_location_id) ==
    [v EXCEPT !.stack[v.sp + 1] = @ - 1, !.ip = v.ip + 1]

ds_subtract(v, stored_location_id) ==
    LET subtrahend == Operand(v, 1, stored_location_id)
    IN [v EXCEPT !.stack[v.sp + 1] = @ - subtrahend, !.ip = v.ip + 1]

ds_modulus(v, stored_location_id) ==
    LET w == ds_pointer_forward(v)
        divisor == Operand(w, PyIndex(w.stack, w.sp - 2), stored_location_id)
    IN IF divisor = 0
       THEN Raise(w, PyError("ZeroDivisionError", "modulo by zero"))
       ELSE Ok([w EXCEPT !.stack[w.sp + 1] =
                             PyMod(PyIndex(w.stack, w.sp - 1), divisor),
                         !.ip = w.ip + 1])

\* Variant: the register receives the index after the pointer.
ds_store_next_index(v, stored_location_id) ==
    LET w == CASE stored_location_id = 1 ->
                      [v EXCEPT !.stored_sp1 = v.sp + 1]
               [] stored_location_id = 2 ->
                      [v EXCEPT !.stored_sp2 = v.sp + 1]
               [] OTHER -> v
    IN [w EXCEPT !.ip = v.ip + 1]

ds_store(v, stored_location_id) ==
    LET w == CASE stored_location_id = 1 -> [v EXCEPT !.stored_sp1 = v.sp]
               [] stored_location_id = 2 -> [v EXCEPT !.stored_sp2 = v.sp]
               [] OTHER -> v
    IN [w EXCEPT !.ip = v.ip + 1]

ds_move_to(v, stored_location_id) ==
    LET w == CASE stored_location_id = 1 -> [v EXCEPT !.sp = v.stored_sp1]
               [] stored_location_id = 2 -> [v EXCEPT !.sp = v.stored_sp2]
               [] OTHER -> v
    IN [w EXCEPT !.ip = v.ip + 1]

\* Variant: the value printed is always the cell under the pointer.
io_print_value_ignoring_location(v, stored_location_id) ==
    Printed([v EXCEPT !.ip = v.ip + 1],
            [kind |-> "int", val |-> PyIndex(v.stack, v.sp)])

io_print_value(v, stored_location_id) ==
    LET value == Operand(v, PyIndex(v.stack, v.sp), stored_location_id)
    IN Printed([v EXCEPT !.ip = v.ip + 1], [kind |-> "int", val |-> value])

\* chr(value) raises ValueError outside range(0x110000); the values of the
\* model stay far below the upper end.
io_print_character(v, stored_location_id) ==
    LET value == Operand(v, PyIndex(v.stack, v.sp), stored_location_id)
    IN IF value < 0
       THEN Raise(v, PyError("ValueError", "chr() arg not in range"))
       ELSE Printed([v EXCEPT !.ip = v.ip + 1],
                    [kind |-> "chr", val |-> value])

\* ------------------------------------------------------------------------
\* Console input: a line of text is a sequence of characters
\* ------------------------------------------------------------------------
Digits == {"0", "1", "2", "5", "7"}

DigitValue(c) ==
    CASE c = "0" -> 0 [] c = "1" -> 1 [] c = "2" -> 2 [] c = "5" -> 5
      [] c = "7" -> 7

\* ord(c) for the characters of the model's input alphabet.
Ord(c) ==
    CASE c = "0" -> 48 [] c = "1" -> 49 [] c = "2" -> 50 [] c = "5" -> 53
      [] c = "7" -> 55 [] c = "-" -> 45 [] c = "." -> 46 [] c = "a" -> 97

AllDigits(s) == s # << >> /\ \A i \in 1..Len(s) : s[i] \in Digits

RECURSIVE DecValue(_)
DecValue(s) ==
    IF s = << >> THEN 0
    ELSE 10 * DecValue(SubSeq(s, 1, Len(s) - 1)) + DigitValue(s[Len(s)])

\* int(user_input) succeeds: an optional sign and decimal digits.
IsIntText(s) ==
    \/ AllDigits(s)
    \/ Len(s) > 1 /\ s[1] = "-" /\ AllDigits(Slice(s, 1))

IntValue(s) == IF s[1] = "-" THEN -DecValue(Slice(s, 1)) ELSE DecValue(s)

\* float(user_input) succeeds where int() failed: digits around one point.
IsFloatText(s) ==
    \E i \in 1..Len(s) :
        /\ s[i] = "."
        /\ LET body == SubSeq(s, 1, i - 1) \o SubSeq(s, i + 1, Len(s))
               unsigned == IF body # << >> /\ body[1] = "-"
                           THEN Slice(body, 1) ELSE body
           IN AllDigits(unsigned)

io_character_input(v, user_input) ==
    LET val == IF IsIntText(user_input) THEN IntValue(user_input)
               ELSE IF IsFloatText(user_input) THEN 0
               ELSE IF Len(user_input) = 1 THEN Ord(user_input[1])
               ELSE 0
    IN [v EXCEPT !.stack[v.sp + 1] = val, !.ip = v.ip + 1]

\* "".join("0" if arg == "FIZZ" else "1" for arg in args[1:])
BinaryInput(args) ==
    LET rest == Slice(args, 1)
    IN [i \in 1..Len(rest) |-> IF rest[i] = F THEN 0 ELSE 1]

\* int("", 2) raises ValueError.
io_store_binary(v, binary_input) ==
    IF binary_input = << >>
    THEN Raise(v, PyError("ValueError", "invalid literal for int()"))
    ELSE Ok([v EXCEPT !.stack[v.sp + 1] = BinValue(binary_input),
                      !.ip = v.ip + 1])

\* Variant: a declaration records the index of the line after it.
fc_create_label_next_line(v, label) ==
    LET w == IF label \notin DOMAIN v.labels
             THEN [v EXCEPT !.labels = (label :> (v.ip + 1)) @@ v.labels]
             ELSE v
    IN [w EXCEPT !.ip = v.ip + 1]

\* Variant: a declaration rebinds a label that is already declared.
fc_create_label_rebinding(v, label) ==
    [v EXCEPT !.labels = (label :> v.ip) @@ v.labels, !.ip = v.ip + 1]

fc_create_label(v, label) ==
    LET w == IF label \notin DOMAIN v.labels
             THEN [v EXCEPT !.labels = (label :> v.ip) @@ v.labels]
             ELSE v
    IN [w EXCEPT !.ip = v.ip + 1]

fc_jump(v, label) ==
    IF label \notin DOMAIN v.labels
    THEN Raise(v, FBRuntimeError("Jump attempt to undefined label", label))
    ELSE Ok([v EXCEPT !.ip = v.labels[label]])

\* Variant: the zero test is inverted.
fc_jump_if_zero_inverted(v, label) ==
    IF PyIndex(v.stack, v.sp) # 0
    THEN fc_jump(v, label)
    ELSE Ok([v EXCEPT !.ip = v.ip + 1])

fc_jump_if_zero(v, label) ==
    IF PyIndex(v.stack, v.sp) = 0
    THEN fc_jump(v, label)
    ELSE Ok([v EXCEPT !.ip = v.ip + 1])

fc_jump_if_non_zero(v, label) ==
    IF PyIndex(v.stack, v.sp) # 0
    THEN fc_jump(v, label)
    ELSE Ok([v EXCEPT !.ip = v.ip + 1])

\* self.vm.fc_jump() of _run_line: the call passes no label.
fc_jump_without_label(v) ==
    Raise(v, PyError("TypeError", "fc_jump() missing argument 'label'"))

\* ------------------------------------------------------------------------
\* Interpreter._run_line: classification
\* ------------------------------------------------------------------------
\* is_label = mode == 3 and submode in (1, 2) and i == len(args)-1
\* (i is the 0-based index of the argument).
\* Variant: the label exemption covers every flow-control submode.
IsLabelArg_any_submode(mode, submode, args, i) ==
    mode = 3 /\ i = Len(args) - 1

IsLabelArg(mode, submode, args, i) ==
    mode = 3 /\ submode \in {1, 2} /\ i = Len(args) - 1

BadArgs(tokens) ==
    LET mode == TokenCode(tokens[1])
        submode == TokenCode(tokens[2])
        args == Slice(tokens, 2)
    IN {i \in 0..(Len(args) - 1) :
            ~IsLabelArg(mode, submode, args, i) /\ args[i + 1] \notin Vocabulary}

Min(S) == CHOOSE x \in S : \A y \in S : x <= y

\* The exception raised by the checks of a code line before any dispatch,
\* NoError when the line passes them.
Classify(tokens) ==
    IF TokenCode(tokens[1]) = 0
    THEN FBSyntaxError(tokens[1], "mode")
    ELSE IF Len(tokens) < 2
    THEN PyError("IndexError", "list index out of range")
    ELSE IF TokenCode(tokens[2]) = 0
    THEN FBSyntaxError(tokens[2], "submode")
    ELSE IF BadArgs(tokens) # {}
    THEN FBSyntaxError(Slice(tokens, 2)[Min(BadArgs(tokens)) + 1], "argument")
    ELSE NoError

\* The line passed every check of _run_line and reaches the dispatch.
Dispatched(tokens) == ~IsNonCode(tokens) /\ Classify(tokens) = NoError

\* The stored_location_id selected by the three `if tokens == [...]` tests of
\* an operation family: base, base + FIZZ, base + BUZZ; -1 when none matches.
LocationId(tokens, base) ==
    CASE tokens = base -> 0
      [] tokens = base \o <<F>> -> 1
      [] tokens = base \o <<B>> -> 2
      [] OTHER -> -1

IsPointerForward(tokens) == tokens = <<F, F, F>>
IsPointerBackward(tokens) == tokens = <<F, F, B>>
IsDuplicate(tokens) == tokens = <<F, F, FB>>
IsAdd(tokens) == LocationId(tokens, <<F, B, F>>) # -1
IsSubtract(tokens) == LocationId(tokens, <<F, B, B>>) # -1
IsModulus(tokens) == LocationId(tokens, <<F, B, FB>>) # -1
IsStore(tokens) == tokens \in {<<F, FB, F>>, <<F, FB, B>>}
IsMoveTo(tokens) == tokens \in {<<F, FB, FB, F>>, <<F, FB, FB, B>>}
IsPrintValue(tokens) == LocationId(tokens, <<B, F>>) # -1
IsPrintCharacter(tokens) == LocationId(tokens, <<B, B>>) # -1
IsCharacterInput(tokens) == tokens = <<B, FB>>
IsStoreBinary(tokens) == Prefix(tokens, 2) = <<B, FB>> /\ Len(tokens) > 2
IsCreateLabel(tokens) == Prefix(tokens, 2) = <<FB, F>> /\ Len(tokens) = 3
IsJumpIfNonZero(tokens) == Prefix(tokens, 3) = <<FB, B, F>> /\ Len(tokens) = 4
IsJumpIfZero(tokens) == Prefix(tokens, 3) = <<FB, B, B>> /\ Len(tokens) = 4
IsJump(tokens) == Prefix(tokens, 3) = <<FB, B, FB>> /\ Len(tokens) = 4
IsHalt(tokens) == tokens = <<FB, FB>>

\* Some `if` of the dispatch chain of _run_line is taken.
Matched(tokens) ==
    \/ IsPointerForward(tokens) \/ IsPointerBackward(tokens)
    \/ IsDuplicate(tokens) \/ IsAdd(tokens) \/ IsSubtract(tokens)
    \/ IsModulus(tokens) \/ IsStore(tokens) \/ IsMoveTo(tokens)
    \/ IsPrintValue(tokens) \/ IsPrintCharacter(tokens)
    \/ IsCharacterInput(tokens) \/ IsStoreBinary(tokens)
    \/ IsCreateLabel(tokens) \/ IsJumpIfNonZero(tokens)
    \/ IsJumpIfZero(tokens) \/ IsJump(tokens) \/ IsHalt(tokens)

\* ------------------------------------------------------------------------
\* Programs and console input of the model
\* ------------------------------------------------------------------------
DataLines ==
    {<<F, F, F>>, <<F, F, B>>, <<F, F, FB>>,
     <<F, B, F>>, <<F, B, F, F>>, <<F, B, F, B>>,
     <<F, B, B>>, <<F, B, B, F>>, <<F, B, B, B>>,
     <<F, B, FB>>, <<F, B, FB, F>>, <<F, B, FB, B>>,
     <<F, FB, F>>, <<F, FB, B>>, <<F, FB, FB, F>>, <<F, FB, FB, B>>}

IOLines ==
    {<<B, F>>, <<B, F, F>>, <<B, F, B>>, <<B, B>>, <<B, B, F>>, <<B, B, B>>,
     <<B, FB>>, <<B, FB, B>>, <<B, FB, F, B>>, <<B, FB, B, F>>,
     <<B, FB, F, B, F>>, <<B, FB, FB, B, B>>, <<B, FB, F, FB>>}

FlowLines ==
    {<<FB, F, "a">>, <<FB, F, "b">>, <<FB, B, F, "a">>, <<FB, B, B, "a">>,
     <<FB, B, B, "b">>, <<FB, B, FB, "a">>, <<FB, FB>>}

\* Blank, comment, malformed and unmatched lines.
OtherLines ==
    {<< >>, <<"//", "x">>, <<"x">>, <<F>>, <<F, "x">>, <<F, F, "x">>,
     <<FB, B, "x", "a">>, <<FB, B, "x">>, <<F, F>>, <<FB, F>>,
     <<FB, FB, F>>, <<FB, FB, "x">>, <<F, F, F, F>>}

Lines == DataLines \cup IOLines \cup FlowLines \cup OtherLines

\* Openings that bring the VM away from its initial state before the free
\* lines of the program.
Preambles ==
    {<< >>,
     \* label a; cell 0 := 3; advance; cell 1 := 2; store B
     <<(<<FB, F, "a">>), (<<B, FB, F, B, B>>), (<<F, F, F>>),
       (<<B, FB, F, B, F>>), (<<F, FB, B>>)>>,
     \* label a; advance; advance; store A; retreat
     <<(<<FB, F, "a">>), (<<F, F, F>>), (<<F, F, F>>), (<<F, FB, F>>),
       (<<F, F, B>>)>>,
     \* advance; cell 1 := 2; store A; retreat; cell 0 := 3
     <<(<<F, F, F>>), (<<B, FB, F, B, F>>), (<<F, FB, F>>), (<<F, F, B>>),
       (<<B, FB, F, B, B>>)>>,
     \* subtract; subtract; advance; cell 1 := 3
     <<(<<F, B, B>>), (<<F, B, B>>), (<<F, F, F>>), (<<B, FB, F, B, B>>)>>,
     \* label a; label b; label a again
     <<(<<FB, F, "a">>), (<<FB, F, "b">>), (<<FB, F, "a">>)>>,
     \* advance; add 1; print-integer
     <<(<<F, F, F>>), (<<F, B, F>>), (<<B, F>>)>>,
     \* a comment line
     <<(<<"//", "x">>)>>,
     \* advance; cell 1 := 2; store A; retreat; cell 0 := 3; add A
     <<(<<F, F, F>>), (<<B, FB, F, B, F>>), (<<F, FB, F>>), (<<F, F, B>>),
       (<<B, FB, F, B, B>>), (<<F, B, F, F>>)>>,
     \* advance; cell 1 := 3; advance
     <<(<<F, F, F>>), (<<B, FB, F, B, B>>), (<<F, F, F>>)>>}

Programs ==
    {p \o b : p \in Preambles,
              b \in UNION {[1..k -> Lines] : k \in 0..MaxBody}}

Inputs ==
    {<<"7">>, <<"-", "2">>, <<"1", ".", "5">>, <<"a">>, <<"a", "b">>}

\* ------------------------------------------------------------------------
\* State
\* ------------------------------------------------------------------------
VARIABLES
    vm,        \* Interpreter.vm
    code,      \* the lines read by run_file
    debug,     \* Interpreter.debug
    pc,        \* "loop": top of `while True`; "trace": at `if self.debug`
               \* after _run_line returned; "done": run_file has ended
    error,     \* the exception that ended run_file, NoError if none
    output,    \* what the VM's print calls wrote, in order
    debugOut,  \* number of debug snapshots printed
    steps,     \* number of lines executed
    lastOp,    \* the operation of the last executed line
    lastExc,   \* the exception _run_line raised on it, NoError if none
    prev,      \* the VM before the last executed line
    prevOut,   \* the output before the last executed line
    lastOp2,   \* the operation of the line executed before the last one
    prev2      \* the VM before that line

vars ==
    <<vm, code, debug, pc, error, output, debugOut, steps, lastOp, lastExc,
      prev, prevOut, lastOp2, prev2>>

Init ==
    /\ vm = VMInit
    /\ code \in Programs
    /\ debug \in BOOLEAN
    /\ pc = "loop"
    /\ error = NoError
    /\ output = << >>
    /\ debugOut = 0
    /\ steps = 0
    /\ lastOp = "none"
    /\ lastExc = NoError
    /\ prev = VMInit
    /\ prevOut = << >>
    /\ lastOp2 = "none"
    /\ prev2 = VMInit

\* code[self.vm.ip]
Line == PyIndex(code, vm.ip)

\* Variant: the loop does not test the halt sentinel before the fetch.
Fetching_without_sentinel ==
    /\ pc = "loop"
    /\ steps < MaxSteps
    /\ vm.ip # Len(code)
    /\ PyIndexOk(code, vm.ip)

\* The loop is about to call _run_line on an existing line.
Fetching ==
    /\ pc = "loop"
    /\ steps < MaxSteps
    /\ vm.ip # -1
    /\ vm.ip # Len(code)
    /\ PyIndexOk(code, vm.ip)

\* _run_line ended with result r (of operation op); run_file goes on to the
\* debug snapshot, to the next iteration, or ends with the exception.
Finish(op, r) ==
    /\ vm' = r.vm
    /\ output' = output \o r.out
    /\ error' = r.exc
    /\ pc' = IF r.exc # NoError THEN "done"
             ELSE IF debug THEN "trace" ELSE "loop"
    /\ lastOp' = op
    /\ lastExc' = r.exc
    /\ prev' = vm
    /\ prevOut' = output
    /\ lastOp2' = lastOp
    /\ prev2' = prev
    /\ steps' = steps + 1
    /\ UNCHANGED <<code, debug, debugOut>>

\* ------------------------------------------------------------------------
\* run_file
\* ------------------------------------------------------------------------
\* if self.vm.ip == -1: break
LoopExit ==
    /\ pc = "loop"
    /\ vm.ip = -1
    /\ pc' = "done"
    /\ UNCHANGED <<vm, code, debug, error, output, debugOut, steps, lastOp,
                   lastExc, prev, prevOut, lastOp2, prev2>>

\* if self.vm.ip == len(code): raise FBRuntimeError(...)
EndOfProgram ==
    /\ pc = "loop"
    /\ vm.ip # -1
    /\ vm.ip = Len(code)
    /\ pc' = "done"
    /\ error' = FBRuntimeError("Unexpected end of program", "")
    /\ UNCHANGED <<vm, code, debug, output, debugOut, steps, lastOp, lastExc,
                   prev, prevOut, lastOp2, prev2>>

\* code[self.vm.ip] with ip past the end of the list.
FetchOutOfRange ==
    /\ pc = "loop"
    /\ vm.ip # -1
    /\ vm.ip # Len(code)
    /\ ~PyIndexOk(code, vm.ip)
    /\ pc' = "done"
    /\ error' = PyError("IndexError", "code")
    /\ UNCHANGED <<vm, code, debug, output, debugOut, steps, lastOp, lastExc,
                   prev, prevOut, lastOp2, prev2>>

\* if self.debug: print(f"Interpreting line {ip}: '{code[ip]}'") ...
DebugTrace ==
    /\ pc = "trace"
    /\ IF PyIndexOk(code, vm.ip)
       THEN /\ debugOut' = debugOut + 1
            /\ pc' = "loop"
            /\ error' = error
       ELSE /\ debugOut' = debugOut
            /\ pc' = "done"
            /\ error' = PyError("IndexError", "debug")
    /\ UNCHANGED <<vm, code, debug, output, steps, lastOp, lastExc, prev,
                   prevOut, lastOp2, prev2>>

\* ------------------------------------------------------------------------
\* _run_line, one action per outcome of the decode and dispatch
\* ------------------------------------------------------------------------
NonCode ==
    /\ Fetching
    /\ IsNonCode(Line)
    /\ Finish("non_code", Ok([vm EXCEPT !.ip = vm.ip + 1]))

ClassifyError ==
    /\ Fetching
    /\ ~IsNonCode(Line)
    /\ Classify(Line) # NoError
    /\ Finish("classify_error", Raise(vm, Classify(Line)))

PointerForward ==
    /\ Fetching /\ IsPointerForward(Line) /\ Dispatched(Line)
    /\ Finish("ds_pointer_forward", Ok(ds_pointer_forward(vm)))

PointerBackward ==
    /\ Fetching /\ IsPointerBackward(Line) /\ Dispatched(Line)
    /\ Finish("ds_pointer_backward", Ok(ds_pointer_backward(vm)))

DuplicateElement ==
    /\ Fetching /\ IsDuplicate(Line) /\ Dispatched(Line)
    /\ Finish("ds_duplicate_element", Ok(ds_duplicate_element(vm)))

Add ==
    /\ Fetching /\ IsAdd(Line) /\ Dispatched(Line)
    /\ Finish("ds_add", Ok(ds_add(vm, LocationId(Line, <<F, B, F>>))))

Subtract ==
    /\ Fetching /\ IsSubtract(Line) /\ Dispatched(Line)
    /\ Finish("ds_subtract",
              Ok(ds_subtract(vm, LocationId(Line, <<F, B, B>>))))

Modulus ==
    /\ Fetching /\ IsModulus(Line) /\ Dispatched(Line)
    /\ Finish("ds_modulus", ds_modulus(vm, LocationId(Line, <<F, B, FB>>)))

Store ==
    /\ Fetching /\ IsStore(Line) /\ Dispatched(Line)
    /\ Finish("ds_store", Ok(ds_store(vm, IF Line[3] = F THEN 1 ELSE 2)))

MoveTo ==
    /\ Fetching /\ IsMoveTo(Line) /\ Dispatched(Line)
    /\ Finish("ds_move_to", Ok(ds_move_to(vm, IF Line[4] = F THEN 1 ELSE 2)))

PrintValue ==
    /\ Fetching /\ IsPrintValue(Line) /\ Dispatched(Line)
    /\ Finish("io_print_value",
              io_print_value(vm, LocationId(Line, <<B, F>>)))

PrintCharacter ==
    /\ Fetching /\ IsPrintCharacter(Line) /\ Dispatched(Line)
    /\ Finish("io_print_character",
              io_print_character(vm, LocationId(Line, <<B, B>>)))

CharacterInput ==
    /\ Fetching /\ IsCharacterInput(Line) /\ Dispatched(Line)
    /\ \E user_input \in Inputs :
           Finish("io_character_input",
                  Ok(io_character_input(vm, user_input)))

StoreBinary ==
    /\ Fetching /\ IsStoreBinary(Line) /\ Dispatched(Line)
    /\ Finish("io_store_binary",
              io_store_binary(vm, BinaryInput(Slice(Line, 2))))

CreateLabel ==
    /\ Fetching /\ IsCreateLabel(Line) /\ Dispatched(Line)
    /\ Finish("fc_create_label", Ok(fc_create_label(vm, Line[3])))

JumpIfNonZero ==
    /\ Fetching /\ IsJumpIfNonZero(Line) /\ Dispatched(Line)
    /\ Finish("fc_jump_if_non_zero", fc_jump_if_non_zero(vm, Line[4]))

JumpIfZero ==
    /\ Fetching /\ IsJumpIfZero(Line) /\ Dispatched(Line)
    /\ Finish("fc_jump_if_zero", fc_jump_if_zero(vm, Line[4]))

Jump ==
    /\ Fetching /\ IsJump(Line) /\ Dispatched(Line)
    /\ Finish("fc_jump", fc_jump_without_label(vm))

Halt ==
    /\ Fetching /\ IsHalt(Line) /\ Dispatched(Line)
    /\ Finish("halt", Ok([vm EXCEPT !.ip = -1]))

\* No `if` of the dispatch chain is taken: _run_line returns with the VM,
\* ip included, as it was.
Unmatched ==
    /\ Fetching /\ ~Matched(Line) /\ Dispatched(Line)
    /\ Finish("unmatched", Ok(vm))

Next ==
    \/ LoopExit \/ EndOfProgram \/ FetchOutOfRange \/ DebugTrace
    \/ NonCode \/ ClassifyError
    \/ PointerForward \/ PointerBackward \/ DuplicateElement
    \/ Add \/ Subtract \/ Modulus \/ Store \/ MoveTo
    \/ PrintValue \/ PrintCharacter \/ CharacterInput \/ StoreBinary
    \/ CreateLabel \/ JumpIfNonZero \/ JumpIfZero \/ Jump \/ Halt
    \/ Unmatched

Spec == Init /\ [][Next]_vars

\* ------------------------------------------------------------------------
\* Properties
\* ------------------------------------------------------------------------
\* Some line has been executed; prev is the VM before it.
Ran == lastOp # "none"

\* The tokens of the last executed line.
LastLine == PyIndex(code, prev.ip)

\* The last executed line returned normally.
Returned == Ran /\ lastExc = NoError

\* The cell under the data pointer before the last executed line.
PrevCell == PyIndex(prev.stack, prev.sp)

\* The last executed line changed nothing of the VM but ip.
OnlyIpChanged == [vm EXCEPT !.ip = prev.ip] = prev

EndOfProgramError == FBRuntimeError("Unexpected end of program", "")

UndefinedLabelError(label) ==
    FBRuntimeError("Jump attempt to undefined label", label)

FellThrough ==
    \/ lastOp = "fc_jump_if_zero" /\ PrevCell # 0
    \/ lastOp = "fc_jump_if_non_zero" /\ PrevCell = 0

\* C1 (as claimed): a comment or blank line, advance, retreat, duplicate,
\* add, subtract, store, seek, print-integer, print-character, read-value,
\* store-literal-binary, label-declare, or a conditional jump that falls
\* through, once it has returned, leaves ip at its old value plus exactly 1.
C1_IpAdvancesByOne ==
    (/\ Returned
     /\ \/ lastOp \in {"non_code", "ds_pointer_forward", "ds_pointer_backward",
                       "ds_duplicate_element", "ds_add", "ds_subtract",
                       "ds_store", "ds_move_to", "io_print_value",
                       "io_print_character", "io_character_input",
                       "io_store_binary", "fc_create_label"}
        \/ FellThrough)
    => vm.ip = prev.ip + 1

\* C2 (as claimed): a run that stops with ip at or past the end of the
\* program (and not halted) has stopped with the execution error
\* "unexpected end of program"; stated for runs without the debug trace.
C2_EndOfProgramRaised ==
    (~debug /\ pc = "done" /\ lastExc = NoError /\ vm.ip # -1
            /\ vm.ip >= Len(code))
    => error = EndOfProgramError

\* C3 (as claimed): the unconditional jump FIZZBUZZ BUZZ FIZZBUZZ <label>
\* sets ip to the label's recorded ip when the label is declared and raises
\* the undefined-label execution error naming the label when it is not;
\* nothing but ip changes.
C3_UnconditionalJump ==
    lastOp = "fc_jump" =>
        /\ OnlyIpChanged
        /\ IF LastLine[4] \in DOMAIN prev.labels
           THEN lastExc = NoError /\ vm.ip = prev.labels[LastLine[4]]
           ELSE lastExc = UndefinedLabelError(LastLine[4]) /\ vm.ip = prev.ip

\* C4: the data pointer is always a valid tape index, 0 <= dp < tape
\* length, and a retreat at dp = 0 leaves dp at 0.
C4_PointerInTape ==
    /\ 0 <= vm.sp
    /\ vm.sp < Len(vm.stack)
    /\ (lastOp = "ds_pointer_backward" /\ prev.sp = 0) => vm.sp = 0

\* A retreat has executed at dp = 0 on a tape of more than one cell.
C4_Witness ==
    /\ lastOp = "ds_pointer_backward"
    /\ prev.sp = 0
    /\ vm.sp = 0
    /\ Len(vm.stack) > 1

Comment == <<"//", "x">>

\* C5: halt sets ip to -1 and changes nothing else; from a state with
\* ip = -1 no line is executed and VM, output and error stay as they are;
\* a halted run ends without error; the program of a comment line followed
\* by halt ends halted with no output and no error.
C5_HaltIsTerminal ==
    /\ [](lastOp = "halt" => (vm.ip = -1 /\ OnlyIpChanged /\ Returned))
    /\ [][vm.ip = -1 =>
            /\ vm' = vm /\ output' = output /\ error' = error
            /\ steps' = steps /\ lastOp' = lastOp]_vars
    /\ []((pc = "done" /\ vm.ip = -1) => error = NoError)
    /\ []((pc = "done" /\ code = <<Comment, (<<FB, FB>>)>>) =>
            (vm.ip = -1 /\ error = NoError /\ output = << >>
             /\ vm.stack = <<0>> /\ steps = 2))

\* The comment-then-halt program has ended.
C5_Witness ==
    /\ pc = "done"
    /\ code = <<Comment, (<<FB, FB>>)>>
    /\ vm.ip = -1
    /\ lastOp = "halt"

\* C6: a declared label keeps its binding over every executed line; the
\* first executed declaration of a name binds it to the ip of that line; a
\* declaration of a bound name changes nothing and raises no error; a taken
\* jump lands on the recorded ip.
C6_FirstDeclarationWins ==
    /\ Ran => \A l \in DOMAIN prev.labels :
                  l \in DOMAIN vm.labels /\ vm.labels[l] = prev.labels[l]
    /\ lastOp = "fc_create_label" =>
          /\ Returned
          /\ vm.ip = prev.ip + 1
          /\ IF LastLine[3] \in DOMAIN prev.labels
             THEN vm.labels = prev.labels
             ELSE /\ DOMAIN vm.labels = DOMAIN prev.labels \cup {LastLine[3]}
                  /\ vm.labels[LastLine[3]] = prev.ip
    /\ (/\ lastOp \in {"fc_jump_if_zero", "fc_jump_if_non_zero"}
        /\ ~FellThrough
        /\ LastLine[4] \in DOMAIN prev.labels)
       => vm.ip = prev.labels[LastLine[4]]

\* Label a is declared on lines 0 and 2; the jump on line 3 has been taken
\* and has landed on line 0.
C6_Witness ==
    /\ lastOp = "fc_jump_if_zero"
    /\ prev.ip = 3
    /\ SubSeq(code, 1, 3) = <<(<<FB, F, "a">>), (<<FB, F, "b">>),
                               (<<FB, F, "a">>)>>
    /\ LastLine[4] = "a"
    /\ vm.ip = 0

\* The divisor the last executed modulus resolved: after the advance, the
\* cell two below the pointer, or the cell at register A or B.
ResolvedDivisor ==
    LET w == ds_pointer_forward(prev)
    IN Operand(w, PyIndex(w.stack, w.sp - 2),
               LocationId(LastLine, <<F, B, FB>>))

\* C7 (as claimed): a modulus whose resolved divisor is 0 ends the run with
\* the execution error kind FBRuntimeError, and writes no result: the tape
\* is the tape as the advance left it.  The default form is taken where the
\* cell two below the advanced pointer exists.
C7_ModulusByZeroIsExecutionError ==
    (/\ lastOp = "ds_modulus"
     /\ LocationId(LastLine, <<F, B, FB>>) = 0 => prev.sp >= 1
     /\ ResolvedDivisor = 0) =>
        /\ lastExc.kind = "FBRuntimeError"
        /\ pc = "done"
        /\ vm.stack = ds_pointer_forward(prev).stack

IsJzLine(tokens) == Len(tokens) = 4 /\ SubSeq(tokens, 1, 3) = <<FB, B, B>>
IsJnzLine(tokens) == Len(tokens) = 4 /\ SubSeq(tokens, 1, 3) = <<FB, B, F>>

\* C8: for FIZZBUZZ BUZZ BUZZ <label> (jump-if-zero) and FIZZBUZZ BUZZ FIZZ
\* <label> (jump-if-nonzero): with the label declared, ip becomes the
\* label's recorded ip exactly when the cell under the pointer meets the
\* condition, and ip + 1 otherwise; nothing but ip changes; when the
\* condition does not hold the line raises no error, declared label or not.
C8_ConditionalJump ==
    (Ran /\ (IsJzLine(LastLine) \/ IsJnzLine(LastLine))) =>
        LET label == LastLine[4]
            holds == IF IsJzLine(LastLine) THEN PrevCell = 0 ELSE PrevCell # 0
        IN /\ OnlyIpChanged
           /\ holds /\ label \in DOMAIN prev.labels =>
                  Returned /\ vm.ip = prev.labels[label]
           /\ ~holds => Returned /\ vm.ip = prev.ip + 1

\* A jump-if-zero to a declared label was taken to a line other than the
\* next one.
C8_Witness ==
    /\ Ran
    /\ IsJzLine(LastLine)
    /\ PrevCell = 0
    /\ LastLine[4] \in DOMAIN prev.labels
    /\ vm.ip = prev.labels[LastLine[4]]
    /\ vm.ip # prev.ip + 1

\* The 0-based positions of the arguments of a code line that must be
\* vocabulary tokens and are not: every argument but the final one of a
\* flow-control label-declare (FIZZBUZZ FIZZ) or label-jump (FIZZBUZZ BUZZ)
\* line.
OffendingArgs(tokens) ==
    {i \in 3..Len(tokens) :
        /\ tokens[i] \notin Vocabulary
        /\ ~(tokens[1] = FB /\ tokens[2] \in {F, B} /\ i = Len(tokens))}

\* C9: on a line that is neither blank nor a comment, a classification
\* error is raised exactly when the first token is not in the vocabulary
\* (expected "mode"), else the second token is not (expected "submode"),
\* else some argument that is not an exempt label is not (expected
\* "argument", naming the first such argument); the line then leaves the VM
\* as it was.
C9_ClassificationError ==
    (Ran /\ lastOp # "non_code") =>
        LET t == LastLine
            syntax == lastExc.kind = "FBSyntaxError"
        IN /\ syntax => vm = prev /\ pc = "done" /\ error = lastExc
           /\ IF t[1] \notin Vocabulary
              THEN lastExc = FBSyntaxError(t[1], "mode")
              ELSE IF Len(t) >= 2 /\ t[2] \notin Vocabulary
              THEN lastExc = FBSyntaxError(t[2], "submode")
              ELSE IF Len(t) >= 2 /\ OffendingArgs(t) # {}
              THEN lastExc = FBSyntaxError(t[Min(OffendingArgs(t))], "argument")
              ELSE ~syntax

\* A label-jump line with a bad token before its label has raised the
\* "argument" error for that token, and not for the label.
C9_Witness ==
    /\ Ran
    /\ LastLine = <<FB, B, "x", "a">>
    /\ lastExc = FBSyntaxError("x", "argument")

\* The digits of a bit-token sequence: FIZZ is 0, BUZZ is 1.
BitsOf(args) == [i \in 1..Len(args) |-> IF args[i] = F THEN 0 ELSE 1]

\* C10 (as claimed): BUZZ FIZZBUZZ followed by one or more bit tokens
\* (FIZZ, BUZZ) stores into the cell under the pointer the value of the
\* binary digit string given by the whole argument sequence, advances ip by
\* 1, changes nothing else and never fails.
C10_StoreBinaryWholeSequence ==
    (/\ Ran
     /\ Len(LastLine) >= 3
     /\ SubSeq(LastLine, 1, 2) = <<B, FB>>
     /\ \A i \in 3..Len(LastLine) : LastLine[i] \in {F, B})
    => /\ Returned
       /\ vm = [prev EXCEPT !.stack[prev.sp + 1] = BinValue(BitsOf(Slice(LastLine, 2))),
                            !.ip = prev.ip + 1]

\* The tokens of the line executed before the last one.
LastLine2 == PyIndex(code, prev2.ip)

\* Two lines have been executed one after the other; prev2, prev and vm are
\* the VM before the first, between the two and after the second.
RanTwo == lastOp2 # "none"

\* The cells of tape `new` at the positions of tape `old`, but for position
\* i (0-based), are the cells of `old`.
SameCellsBut(old, new, i) ==
    /\ Len(new) >= Len(old)
    /\ \A j \in 1..Len(old) : j # i + 1 => new[j] = old[j]

\* C11 (as claimed): a modulus that returns has advanced dp by one
\* (appending a 0 cell when dp was the last index) and has written
\* tape[dp] = tape[dp-1] mod divisor, the divisor being tape[dp-2] with no
\* register argument and tape[regA] or tape[regB] with one; every other
\* cell is unchanged and every index read lies in 0..tape length-1.
C11_ModulusReadsCellTwoBelow ==
    (lastOp = "ds_modulus" /\ Returned) =>
        LET id == LocationId(LastLine, <<F, B, FB>>)
            dp == prev.sp + 1
            grown == IF prev.sp = Len(prev.stack) - 1
                     THEN Append(prev.stack, 0) ELSE prev.stack
        IN /\ vm.sp = dp
           /\ Len(vm.stack) = Len(grown)
           /\ SameCellsBut(grown, vm.stack, dp)
           /\ id = 0 => /\ dp - 2 \in 0..(Len(grown) - 1)
                        /\ vm.stack[dp + 1] =
                               PyMod(grown[dp], grown[dp - 1])
           /\ id = 1 => vm.stack[dp + 1] =
                            PyMod(grown[dp], grown[prev.stored_sp1 + 1])
           /\ id = 2 => vm.stack[dp + 1] =
                            PyMod(grown[dp], grown[prev.stored_sp2 + 1])

\* The tape after an advance from VM v: a 0 cell is appended when dp was
\* the last index.
Grown(v) ==
    IF v.sp = Len(v.stack) - 1 THEN Append(v.stack, 0) ELSE v.stack

\* C12: duplicate advances dp by exactly one, appending a cell when dp was
\* the last index and overwriting the next cell otherwise; afterwards
\* tape[dp] is the value tape[dp-1] had before, and tape[dp-1], every other
\* cell, regA, regB and the label table are unchanged.
C12_Duplicate ==
    lastOp = "ds_duplicate_element" =>
        /\ Returned
        /\ vm.sp = prev.sp + 1
        /\ Len(vm.stack) = Len(Grown(prev))
        /\ vm.stack[vm.sp + 1] = prev.stack[prev.sp + 1]
        /\ SameCellsBut(prev.stack, vm.stack, vm.sp)
        /\ vm.stored_sp1 = prev.stored_sp1
        /\ vm.stored_sp2 = prev.stored_sp2
        /\ vm.labels = prev.labels

\* A duplicate has overwritten an existing next cell that held another
\* value.
C12_Witness ==
    /\ lastOp = "ds_duplicate_element"
    /\ Len(vm.stack) = Len(prev.stack)
    /\ prev.stack[vm.sp + 1] # prev.stack[prev.sp + 1]
    /\ vm.stack[vm.sp + 1] = prev.stack[prev.sp + 1]

\* The value of source id (0: the constant 1; 1, 2: the cell at register A,
\* B) in VM v.
SourceValue(v, id) ==
    CASE id = 0 -> 1
      [] id = 1 -> v.stack[v.stored_sp1 + 1]
      [] id = 2 -> v.stack[v.stored_sp2 + 1]

\* The register of source id does not point at the data pointer of VM v.
SourceAwayFromPointer(v, id) ==
    /\ id = 1 => v.stored_sp1 # v.sp
    /\ id = 2 => v.stored_sp2 # v.sp

\* C13: add(s) sets the cell under the pointer to its old value plus the
\* value of s read before the write and changes nothing else but ip; an
\* add(s) immediately followed by subtract(s), s a source whose register
\* does not point at dp, leaves the tape, dp, the registers and the label
\* table as they were before the add.
C13_AddThenSubtract ==
    /\ lastOp = "ds_add" =>
          /\ Returned
          /\ vm = [prev EXCEPT
                      !.stack[prev.sp + 1] =
                          @ + SourceValue(prev,
                                          LocationId(LastLine, <<F, B, F>>)),
                      !.ip = prev.ip + 1]
    /\ (/\ lastOp2 = "ds_add"
        /\ lastOp = "ds_subtract"
        /\ LocationId(LastLine2, <<F, B, F>>) =
               LocationId(LastLine, <<F, B, B>>)
        /\ SourceAwayFromPointer(prev2, LocationId(LastLine2, <<F, B, F>>)))
       => /\ Returned
          /\ vm = [prev2 EXCEPT !.ip = prev2.ip + 2]

\* An add of the cell at register A (not 0, not 1) was followed by the
\* subtract of the same source.
C13_Witness ==
    /\ lastOp2 = "ds_add"
    /\ lastOp = "ds_subtract"
    /\ LastLine2 = <<F, B, F, F>>
    /\ LastLine = <<F, B, B, F>>
    /\ prev2.stored_sp1 # prev2.sp
    /\ prev2.stack[prev2.stored_sp1 + 1] > 1
    /\ prev.stack # prev2.stack
    /\ vm.stack = prev2.stack

\* C14: an advance immediately followed by a retreat restores dp to its
\* value before the advance, also when the advance appended a cell; every
\* cell that existed before keeps its value, and the tape is as long as
\* before or longer by exactly one appended 0.
C14_AdvanceThenRetreat ==
    (lastOp2 = "ds_pointer_forward" /\ lastOp = "ds_pointer_backward") =>
        /\ Returned
        /\ vm.sp = prev2.sp
        /\ \/ vm.stack = prev2.stack
           \/ vm.stack = Append(prev2.stack, 0)
        /\ vm.stored_sp1 = prev2.stored_sp1
        /\ vm.stored_sp2 = prev2.stored_sp2
        /\ vm.labels = prev2.labels

\* An advance from the last cell, which held a non-zero value and was not
\* cell 0, appended a cell, and the retreat came back to it.
C14_Witness ==
    /\ lastOp2 = "ds_pointer_forward"
    /\ lastOp = "ds_pointer_backward"
    /\ prev2.sp = Len(prev2.stack) - 1
    /\ prev2.sp >= 1
    /\ prev2.stack[prev2.sp + 1] # 0
    /\ vm.stack = Append(prev2.stack, 0)
    /\ vm.sp = prev2.sp

\* The outcome of the run when the loop of run_file, with the debug flag
\* off, goes on from the VM state left by the last executed line.
OutcomeWithoutDebug ==
    IF lastExc # NoError THEN lastExc
    ELSE IF vm.ip = -1 THEN NoError
    ELSE IF vm.ip = Len(code) THEN EndOfProgramError
    ELSE PyError("IndexError", "code")

\* C15: the debug flag is purely observational: a run with the flag on that
\* has ended, ended with the outcome (clean halt, or the same kind of
\* error) that the run with the flag off has from the same VM state, also
\* for a program that runs off its end without the halt instruction.
C15_DebugIsObservational ==
    (debug /\ pc = "done" /\ Ran) => error.kind = OutcomeWithoutDebug.kind

\* advance, add 1, print-integer, halt
AdvanceAddPrintHalt ==
    <<(<<F, F, F>>), (<<F, B, F>>), (<<B, F>>), (<<FB, FB>>)>>

\* C16: print-integer appends to the output exactly the value of the cell
\* under dp (no argument), at register A (FIZZ) or at register B (BUZZ) and
\* changes nothing else but ip, which advances by 1; the program advance,
\* add 1, print-integer, halt ends cleanly with output 1, tape [0, 1] and
\* dp = 1.
C16_PrintInteger ==
    /\ lastOp = "io_print_value" =>
          LET id == LocationId(LastLine, <<B, F>>)
              value == CASE id = 0 -> prev.stack[prev.sp + 1]
                         [] id = 1 -> prev.stack[prev.stored_sp1 + 1]
                         [] id = 2 -> prev.stack[prev.stored_sp2 + 1]
          IN /\ Returned
             /\ output = Append(prevOut, [kind |-> "int", val |-> value])
             /\ vm = [prev EXCEPT !.ip = prev.ip + 1]
    /\ (code = AdvanceAddPrintHalt /\ pc = "done") =>
          /\ error = NoError
          /\ output = <<[kind |-> "int", val |-> 1]>>
          /\ vm.stack = <<0, 1>>
          /\ vm.sp = 1
          /\ vm.ip = -1

\* The program advance, add 1, print-integer, halt has ended, its print
\* being the line before the halt.
C16_Witness ==
    /\ code = AdvanceAddPrintHalt
    /\ pc = "done"
    /\ lastOp2 = "io_print_value"
    /\ lastOp = "halt"
    /\ output = <<[kind |-> "int", val |-> 1]>>

\* C17: across every executed line the tape never gets shorter and grows by
\* at most one cell; it grows only when an advance (direct, or inside
\* duplicate or modulus) moves dp past the last index, and then the new
\* cell is appended at the high end, the earlier cells keeping their
\* places; no other instruction changes the length of the tape.
C17_TapeGrowth ==
    Ran =>
        /\ Len(vm.stack) \in {Len(prev.stack), Len(prev.stack) + 1}
        /\ Len(vm.stack) = Len(prev.stack) + 1 =>
              /\ lastOp \in {"ds_pointer_forward", "ds_duplicate_element",
                             "ds_modulus"}
              /\ prev.sp = Len(prev.stack) - 1
              /\ vm.sp = Len(vm.stack) - 1
              /\ \A j \in 1..Len(prev.stack) :
                    j # vm.sp + 1 => vm.stack[j] = prev.stack[j]
        /\ (/\ lastOp \in {"ds_pointer_forward", "ds_duplicate_element",
                           "ds_modulus"}
            /\ prev.sp < Len(prev.stack) - 1)
           => Len(vm.stack) = Len(prev.stack)

\* An advance from a cell below the last one left the tape, of three cells,
\* as long as it was.
C17_Witness ==
    /\ lastOp = "ds_pointer_forward"
    /\ prev.sp < Len(prev.stack) - 1
    /\ Len(prev.stack) = 3
    /\ vm.sp = prev.sp + 1
    /\ vm.stack = prev.stack

\* C18: a line that is not a comment, whose tokens all pass classification
\* and whose execution raises nothing, advances or redirects ip: it never
\* leaves ip and the rest of the VM state unchanged.
C18_EveryLineMovesIp ==
    (Returned /\ lastOp # "non_code") => vm # prev

\* C19: both registers are always indices of existing cells, so a seek and
\* every add, subtract, modulus and print reads an existing cell and raises
\* no IndexError; store changes only the named register and ip, seek only
\* dp and ip.
C19_RegistersInTape ==
    /\ vm.stored_sp1 \in 0..(Len(vm.stack) - 1)
    /\ vm.stored_sp2 \in 0..(Len(vm.stack) - 1)
    /\ lastOp \in {"ds_add", "ds_subtract", "ds_modulus", "ds_move_to",
                   "io_print_value", "io_print_character"}
          => lastExc.kind # "IndexError"
    /\ lastOp = "ds_store" =>
          /\ Returned
          /\ LastLine[3] = F =>
                vm = [prev EXCEPT !.stored_sp1 = prev.sp,
                                  !.ip = prev.ip + 1]
          /\ LastLine[3] = B =>
                vm = [prev EXCEPT !.stored_sp2 = prev.sp,
                                  !.ip = prev.ip + 1]
    /\ lastOp = "ds_move_to" =>
          /\ Returned
          /\ LastLine[4] = F =>
                vm = [prev EXCEPT !.sp = prev.stored_sp1,
                                  !.ip = prev.ip + 1]
          /\ LastLine[4] = B =>
                vm = [prev EXCEPT !.sp = prev.stored_sp2,
                                  !.ip = prev.ip + 1]

\* A seek moved dp from cell 1 to register A, the last cell of a tape of
\* three, while register B stayed at cell 0.
C19_Witness ==
    /\ lastOp = "ds_move_to"
    /\ LastLine = <<F, FB, FB, F>>
    /\ prev.sp = 1
    /\ prev.stored_sp1 = 2
    /\ Len(prev.stack) = 3
    /\ vm.sp = 2
    /\ vm.stored_sp2 = 0

\* The line before the last one was a conditional jump whose condition held.
JumpTakenBefore ==
    /\ lastOp2 \in {"fc_jump_if_zero", "fc_jump_if_non_zero", "fc_jump"}
    /\ lastOp2 = "fc_jump_if_zero" => PyIndex(prev2.stack, prev2.sp) = 0
    /\ lastOp2 = "fc_jump_if_non_zero" => PyIndex(prev2.stack, prev2.sp) # 0

\* The last line was a jump that was taken.
JumpTaken ==
    /\ Returned
    /\ lastOp \in {"fc_jump_if_zero", "fc_jump_if_non_zero", "fc_jump"}
    /\ lastOp = "fc_jump_if_zero" => PrevCell = 0
    /\ lastOp = "fc_jump_if_non_zero" => PrevCell # 0

\* C20: every value of the label table is the index of a line of the
\* program that declares that name; a taken jump sets ip to such an index,
\* never to the halt sentinel or outside the program; the line executed
\* next is that declaration, which changes nothing but ip, and the run
\* continues on the line after it.
C20_LabelsPointAtDeclarations ==
    /\ \A l \in DOMAIN vm.labels :
          /\ vm.labels[l] \in 0..(Len(code) - 1)
          /\ code[vm.labels[l] + 1] = <<FB, F, l>>
    /\ JumpTaken =>
          /\ vm.ip \in 0..(Len(code) - 1)
          /\ vm.ip = prev.labels[LastLine[Len(LastLine)]]
          /\ code[vm.ip + 1] = <<FB, F, LastLine[Len(LastLine)]>>
    /\ JumpTakenBefore =>
          /\ lastOp = "fc_create_label"
          /\ Returned
          /\ prev.ip = prev2.labels[LastLine2[Len(LastLine2)]]
          /\ vm = [prev EXCEPT !.ip = prev.ip + 1]

\* The jump-if-zero on line 5 was taken to the declaration on line 0, which
\* was executed again and passed control to line 1.
C20_Witness ==
    /\ lastOp2 = "fc_jump_if_zero"
    /\ lastOp = "fc_create_label"
    /\ prev2.ip = 5
    /\ prev.ip = 0
    /\ vm.ip = 1
    /\ vm.labels = prev2.labels
    /\ DOMAIN vm.labels = {"a"}

====
